---- MODULE Spec2Model ----
(***************************************************************************)
(* Model of cathi_score.py: SiRTA-like G/T motif scoring.                  *)
(*                                                                         *)
(* A DNA string is a sequence of one-character strings.  Offsets and spans *)
(* are 0-based and half-open as in the Python source; Slice(s, a, b) is    *)
(* the Python slice s[a:b].  Every function of the source is an operator   *)
(* computed the way the source computes it, and every Call* action applies *)
(* one function to the inputs drawn by Init and records what it returned.  *)
(***************************************************************************)
EXTENDS Integers, Sequences, FiniteSets, TLC

VARIABLES seq, window, step, penalty, tt_penalty, start, strand,
          called, res, kmers, pos, score, max_score, scores

vars == <<seq, window, step, penalty, tt_penalty, start, strand,
          called, res, kmers, pos, score, max_score, scores>>

config == <<window, step, penalty, tt_penalty, start, strand>>

(***************************************************************************)
(* Bounds of the model.                                                    *)
(***************************************************************************)
MaxClassifyLen == 9
MaxRunLen == 10
MaxWindowLen == 9
MaxSeqLen == 6
MaxWindow == 6
MaxStep == 3

Nucleotides == {"A", "C", "G", "T"}
RunAlphabet == {"G", "T"}

\* s is a string over alphabet of length 0..n
IsString(s, alphabet, n) == \E l \in 0..n : s \in [1..l -> alphabet]

(***************************************************************************)
(* Python string primitives.                                               *)
(***************************************************************************)
Min(a, b) == IF a <= b THEN a ELSE b
Max(a, b) == IF a >= b THEN a ELSE b

\* s[a:b] for 0 <= a
Slice(s, a, b) ==
    LET hi == Min(b, Len(s))
    IN IF a >= hi THEN <<>> ELSE SubSeq(s, a + 1, hi)

\* the literal pat occurs in s at 0-based offset i
OccursAt(s, pat, i) ==
    /\ i >= 0
    /\ i + Len(pat) <= Len(s)
    /\ \A j \in 1..Len(pat) : s[i + j] = pat[j]

\* 0-based offsets at which the literal pat occurs in s
Occurrences(s, pat) == {i \in 0..Len(s) : OccursAt(s, pat, i)}

SetMin(S) == CHOOSE x \in S : \A y \in S : x <= y

\* re.search(pat, s).start() for a literal pat that occurs in s
search(pat, s) == SetMin(Occurrences(s, pat))

GGTGG == <<"G", "G", "T", "G", "G">>
GGT == <<"G", "G", "T">>
GTGGTGG == <<"G", "T", "G", "G", "T", "G", "G">>
TT == <<"T", "T">>
GGGG == <<"G", "G", "G", "G">>

(***************************************************************************)
(* Pattern classifier.                                                     *)
(***************************************************************************)
contains_gt5_gs(s) == Occurrences(s, GGGG \o <<"G">>) # {}

\* re.search(r"GGGG+", seq) is not None
contains_gt4_gs(s) == Occurrences(s, GGGG) # {}

\* number of consecutive copies of GGT found from offset i on (greedy)
RECURSIVE GgtCopies(_, _)
GgtCopies(s, i) ==
    IF OccursAt(s, GGT, i) THEN 1 + GgtCopies(s, i + 3) ELSE 0

\* re.search(r"((?:GGT){2,}G?)", seq).group(1): leftmost, greedy; <<>> when
\* there is no match (a match is never empty)
ggt_repeat_group(s) ==
    LET starts == {i \in 0..Len(s) : GgtCopies(s, i) >= 2}
    IN IF starts = {} THEN <<>>
       ELSE LET i == SetMin(starts)
                e == i + 3 * GgtCopies(s, i)
                e2 == IF OccursAt(s, <<"G">>, e) THEN e + 1 ELSE e
            IN Slice(s, i, e2)

gtggtgg_no_t(s) == s = GTGGTGG

\* re.match(r"GTGGTGGT?$", seq)
gtggtgg_alone(s) == s = GTGGTGG \/ s = GTGGTGG \o <<"T">>

all_ggtgg(s) ==
    IF s = GGTGG \/ gtggtgg_alone(s) THEN TRUE
    ELSE IF ggt_repeat_group(s) # <<>> THEN ggt_repeat_group(s) = s
    ELSE FALSE

(***************************************************************************)
(* Candidate splitter.                                                     *)
(***************************************************************************)
\* [s.start(0) for s in re.finditer(r"TT", c)] scanning from offset i:
\* non-overlapping matches, left to right
RECURSIVE tt_scan_short(_, _)
tt_scan_short(c, i) ==
    IF i + 2 >= Len(c) THEN <<>>
    ELSE IF OccursAt(c, TT, i) THEN <<i>> \o tt_scan_short(c, i + 2)
    ELSE tt_scan_short(c, i + 1)

RECURSIVE tt_scan(_, _)
tt_scan(c, i) ==
    IF i + 2 > Len(c) THEN <<>>
    ELSE IF OccursAt(c, TT, i) THEN <<i>> \o tt_scan(c, i + 2)
    ELSE tt_scan(c, i + 1)

tt_positions(c) == tt_scan(c, 0)

RECURSIVE test_candidate(_)
test_candidate(c) ==
    LET tt_pos == tt_positions(c)
    IN IF Len(tt_pos) = 0 /\ Len(c) >= 4 /\ c[1] # "T"
       THEN (IF ~all_ggtgg(c) THEN <<c>> ELSE <<>>)
       ELSE IF Len(tt_pos) = 0 /\ Len(c) >= 4 /\ c[1] = "T"
       THEN test_candidate(Slice(c, 1, Len(c)))
       ELSE IF Len(c) > 4
       THEN test_candidate(Slice(c, 0, tt_pos[1] + 1))
            \o test_candidate(Slice(c, tt_pos[1] + 1, Len(c)))
       ELSE <<>>

(***************************************************************************)
(* Motif extractor.                                                        *)
(***************************************************************************)
\* end offset of the longest stretch of G/T characters that starts at i
RECURSIVE gt_run_end(_, _)
gt_run_end(s, i) ==
    IF i < Len(s) /\ s[i + 1] \in {"G", "T"} THEN gt_run_end(s, i + 1) ELSE i

\* fewest characters a match of G[GT]{3,} has
MinMatchLen == 4

RECURSIVE tg_scan_min5(_, _)
tg_scan_min5(s, i) ==
    IF i >= Len(s) THEN <<>>
    ELSE IF s[i + 1] = "G" /\ gt_run_end(s, i + 1) - i > MinMatchLen
    THEN <<<<i, gt_run_end(s, i + 1)>>>> \o tg_scan_min5(s, gt_run_end(s, i + 1))
    ELSE tg_scan_min5(s, i + 1)

\* spans (match.start(), match.end()) of re.finditer(r'(G[GT]{3,})', seq)
\* scanning from offset i: leftmost, greedy, non-overlapping
RECURSIVE tg_scan(_, _)
tg_scan(s, i) ==
    IF i >= Len(s) THEN <<>>
    ELSE IF s[i + 1] = "G" /\ gt_run_end(s, i + 1) - i >= MinMatchLen
    THEN <<<<i, gt_run_end(s, i + 1)>>>> \o tg_scan(s, gt_run_end(s, i + 1))
    ELSE tg_scan(s, i + 1)

tg_matches(s) == tg_scan(s, 0)

\* the fragments kept for one match: ks filtered by k != ""
match_kmers(s, m) ==
    LET text == Slice(s, m[1], m[2])
    IN IF ~contains_gt4_gs(text) /\ ~all_ggtgg(text)
       THEN SelectSeq(test_candidate(text), LAMBDA k : k # <<>>)
       ELSE <<>>

\* the span recorded for fragment k of match m
kmer_pos(s, m, k) ==
    IF m[2] - m[1] = Len(k) THEN <<m[1], m[2]>>
    ELSE LET offset == search(k, Slice(s, m[1], m[2]))
             new_start == m[1] + offset
         IN <<new_start, new_start + Len(k)>>

match_pos(s, m) ==
    LET ks == match_kmers(s, m)
    IN [j \in 1..Len(ks) |-> kmer_pos(s, m, ks[j])]

RECURSIVE collect_kmers(_, _), collect_pos(_, _)
collect_kmers(s, ms) ==
    IF ms = <<>> THEN <<>>
    ELSE match_kmers(s, Head(ms)) \o collect_kmers(s, Tail(ms))

collect_pos(s, ms) ==
    IF ms = <<>> THEN <<>>
    ELSE match_pos(s, Head(ms)) \o collect_pos(s, Tail(ms))

find_tg_kmers(s) ==
    [kmers |-> collect_kmers(s, tg_matches(s)),
     pos |-> collect_pos(s, tg_matches(s))]

(***************************************************************************)
(* Scorer.                                                                 *)
(***************************************************************************)
RECURSIVE score_groups(_)
score_groups(seq_groups) ==
    IF seq_groups = <<>> THEN 0
    ELSE Len(Head(seq_groups)) + score_groups(Tail(seq_groups))

\* len(re.findall(r"(GGTGG)", g, overlapped=True))
ggtgg_count(g) == Cardinality(Occurrences(g, GGTGG))

RECURSIVE ggtgg_penalty(_, _)
ggtgg_penalty(seq_groups, p) ==
    IF seq_groups = <<>> THEN 0
    ELSE ggtgg_count(Head(seq_groups)) * p + ggtgg_penalty(Tail(seq_groups), p)

\* the test of one recorded span in the flanking-TT loop
flanking_tt(span, s) ==
    /\ span[2] < Len(s)
    /\ s[span[2] + 1] = "T"
    /\ s[span[2]] = "T"

RECURSIVE flanking_penalty(_, _, _)
flanking_penalty(ps, tp, s) ==
    IF ps = <<>> THEN 0
    ELSE (IF flanking_tt(Head(ps), s) THEN tp ELSE 0)
         + flanking_penalty(Tail(ps), tp, s)

calculate_penalty(seq_groups, p, tp, ps, s) ==
    ggtgg_penalty(seq_groups, p) + flanking_penalty(ps, tp, s)

\* net score of one window: extract, then raw score minus penalty
window_score(w, p, tp) ==
    LET found == find_tg_kmers(w)
    IN score_groups(found.kmers)
       - calculate_penalty(found.kmers, p, tp, found.pos, w)

(***************************************************************************)
(* Window aggregator.                                                      *)
(***************************************************************************)
\* np.nan, and a number, as values of max_score
NaN == [isnan |-> TRUE, value |-> 0]
Num(v) == [isnan |-> FALSE, value |-> v]

\* math.ceil(n / d) for d > 0
ceil(n, d) == -((-n) \div d)

\* Python 3 round(n / d) for d > 0: half to even
round(n, d) ==
    LET q == n \div d
        r == n % d
    IN IF 2 * r < d THEN q
       ELSE IF 2 * r > d THEN q + 1
       ELSE IF q % 2 = 0 THEN q ELSE q + 1

\* list(range(0, num_windows*step, step))
range(num_windows, st) ==
    IF num_windows <= 0 THEN <<>>
    ELSE [k \in 1..num_windows |-> (k - 1) * st]

max_num_windows(s, w, st) == round(Len(s) - w + st, st)

signal_num_windows_floor(s, w, st) == (Len(s) - w + st) \div st

signal_num_windows(s, w, st) == ceil(Len(s) - w + st, st)

\* the loop body of calc_max_score_over_windows folded over the offsets
RECURSIVE max_loop(_, _, _, _, _, _)
max_loop(s, p, tp, w, offsets, acc) ==
    IF offsets = <<>> THEN acc
    ELSE LET i == Head(offsets)
             sc == window_score(Slice(s, i, i + w), p, tp)
             next == IF acc.isnan THEN Num(sc)
                     ELSE IF sc > acc.value THEN Num(sc)
                     ELSE acc
         IN max_loop(s, p, tp, w, Tail(offsets), next)

calc_max_score_over_windows(s, p, tp, w, st) ==
    max_loop(s, p, tp, w, range(max_num_windows(s, w, st), st), NaN)

signal_row_unmirrored(s, st0, p, tp, w, sd, i) ==
    LET seq_len == Len(Slice(s, i, i + w))
        sc == window_score(Slice(s, i, i + w), p, tp)
    IN IF sd = "+"
       THEN [start |-> st0 + i, end |-> st0 + i + seq_len, score |-> sc]
       ELSE [start |-> st0 - i, end |-> st0 - i + seq_len, score |-> sc]

\* one row appended by calc_score_over_windows for the window at offset i
signal_row(s, st0, p, tp, w, sd, i) ==
    LET seq_len == Len(Slice(s, i, i + w))
        sc == window_score(Slice(s, i, i + w), p, tp)
    IN IF sd = "+"
       THEN [start |-> st0 + i, end |-> st0 + i + seq_len, score |-> sc]
       ELSE [start |-> st0 - i - seq_len, end |-> st0 - i, score |-> sc]

calc_score_over_windows(s, st0, p, tp, w, st, sd) ==
    LET offsets == range(signal_num_windows(s, w, st), st)
    IN [k \in 1..Len(offsets) |-> signal_row(s, st0, p, tp, w, sd, offsets[k])]


(***************************************************************************)
(* State machine: inputs drawn by Init, one action per function applied.   *)
(***************************************************************************)
Idle ==
    /\ called = {}
    /\ res = FALSE
    /\ kmers = <<>>
    /\ pos = <<>>
    /\ score = 0
    /\ max_score = NaN
    /\ scores = <<>>

DefaultConfig ==
    /\ window = 100
    /\ step = 1
    /\ penalty = 0
    /\ tt_penalty = 0
    /\ start = 0
    /\ strand = "+"

CallContainsGt4Gs ==
    /\ "contains_gt4_gs" \notin called
    /\ "all_ggtgg" \notin called
    /\ called' = called \cup {"contains_gt4_gs"}
    /\ res' = contains_gt4_gs(seq)
    /\ UNCHANGED <<seq, config, kmers, pos, score, max_score, scores>>

CallAllGgtgg ==
    /\ "all_ggtgg" \notin called
    /\ "contains_gt4_gs" \notin called
    /\ called' = called \cup {"all_ggtgg"}
    /\ res' = all_ggtgg(seq)
    /\ UNCHANGED <<seq, config, kmers, pos, score, max_score, scores>>

InitClassify ==
    /\ IsString(seq, Nucleotides, MaxClassifyLen)
    /\ DefaultConfig
    /\ Idle

NextClassify == CallContainsGt4Gs \/ CallAllGgtgg

SpecClassify == InitClassify /\ [][NextClassify]_vars

CallTestCandidate ==
    /\ called = {}
    /\ called' = {"test_candidate"}
    /\ kmers' = test_candidate(seq)
    /\ UNCHANGED <<seq, config, res, pos, score, max_score, scores>>

InitSplit ==
    /\ IsString(seq, RunAlphabet, MaxRunLen)
    /\ DefaultConfig
    /\ Idle

NextSplit == CallTestCandidate

SpecSplit == InitSplit /\ [][NextSplit]_vars

\* alphabet of the windows: every pattern of the source names only G and T,
\* so "A" stands for both of the other nucleotides (A, C)
WindowAlphabet == {"A", "G", "T"}

\* <<penalty, tt_penalty>>: the defaults, and weights that can turn a score
\* negative
PenaltyPairs == {<<0, 0>>, <<7, 5>>}
StartValues == {0, 100}

CallFindTgKmers ==
    /\ called = {}
    /\ called' = {"find_tg_kmers"}
    /\ kmers' = find_tg_kmers(seq).kmers
    /\ pos' = find_tg_kmers(seq).pos
    /\ UNCHANGED <<seq, config, res, score, max_score, scores>>

CallScore ==
    /\ called = {"find_tg_kmers"}
    /\ called' = called \cup {"score"}
    /\ score' = score_groups(kmers)
                - calculate_penalty(kmers, penalty, tt_penalty, pos, seq)
    /\ UNCHANGED <<seq, config, res, kmers, pos, max_score, scores>>

InitExtract ==
    /\ IsString(seq, WindowAlphabet, MaxWindowLen)
    /\ \E pp \in PenaltyPairs : penalty = pp[1] /\ tt_penalty = pp[2]
    /\ window = 100
    /\ step = 1
    /\ start = 0
    /\ strand = "+"
    /\ Idle

NextExtract == CallFindTgKmers \/ CallScore

SpecExtract == InitExtract /\ [][NextExtract]_vars

CallMax ==
    /\ called = {}
    /\ called' = {"max"}
    /\ max_score' = calc_max_score_over_windows(seq, penalty, tt_penalty, window, step)
    /\ UNCHANGED <<seq, config, res, kmers, pos, score, scores>>

CallSignal ==
    /\ "signal" \notin called
    /\ called' = called \cup {"signal"}
    /\ scores' = calc_score_over_windows(seq, start, penalty, tt_penalty,
                                         window, step, strand)
    /\ UNCHANGED <<seq, config, res, kmers, pos, score, max_score>>

Init ==
    /\ IsString(seq, WindowAlphabet, MaxSeqLen)
    /\ window \in 1..MaxWindow
    /\ step \in 1..MaxStep
    /\ \E pp \in PenaltyPairs : penalty = pp[1] /\ tt_penalty = pp[2]
    /\ start \in StartValues
    /\ strand \in {"+", "-"}
    /\ Idle

Next == CallMax \/ CallSignal

Spec == Init /\ [][Next]_vars

(***************************************************************************)
(* Properties.                                                             *)
(***************************************************************************)
\* s as a whole is GGT repeated two or more times, optionally followed by
\* one G
IsGgtRepeat(s) ==
    \E n \in 2..Len(s) :
        /\ Len(s) \in {3 * n, 3 * n + 1}
        /\ \A j \in 1..Len(s) : s[j] = (IF j % 3 = 0 THEN "T" ELSE "G")

\* the strings the source rejects as pure repeats
IsPureRepeat(s) ==
    \/ s = GGTGG
    \/ s = GTGGTGG
    \/ s = GTGGTGG \o <<"T">>
    \/ IsGgtRepeat(s)

\* C1: every candidate returned by test_candidate for a string over {G,T}
\* has no "TT", has length >= 4, does not start with 'T' and is not a pure
\* GGTGG repeat.
C1_SplitCandidatesClean ==
    "test_candidate" \in called =>
        \A j \in 1..Len(kmers) :
            /\ Occurrences(kmers[j], TT) = {}
            /\ Len(kmers[j]) >= 4
            /\ kmers[j][1] # "T"
            /\ ~IsPureRepeat(kmers[j])

\* a run with a TT break was split into two or more candidates
C1_Witness ==
    /\ "test_candidate" \in called
    /\ Occurrences(seq, TT) # {}
    /\ Len(kmers) >= 2

\* C2 as stated: all_ggtgg is true iff seq is "GGTGG", or "GTGGTGGT"
\* optionally followed by one more "T", or a whole GGT repeat.
C2_AsStated ==
    "all_ggtgg" \in called =>
        (res <=> \/ seq = GGTGG
                 \/ seq = GTGGTGG \o <<"T">>
                 \/ seq = GTGGTGG \o <<"T", "T">>
                 \/ IsGgtRepeat(seq))

\* C2 amended: all_ggtgg is true iff seq is "GGTGG", or "GTGGTGG" optionally
\* followed by one "T" and nothing else, or a whole GGT repeat (two or more
\* copies, optionally one trailing G); false for every other string.
C2_PureRepeatCharacterised ==
    "all_ggtgg" \in called => (res <=> IsPureRepeat(seq))

\* all_ggtgg accepted "GTGGTGG" with no trailing T
C2_Witness ==
    /\ "all_ggtgg" \in called
    /\ seq = GTGGTGG
    /\ res

\* C3: in max mode a sequence shorter than one window gets its single
\* truncated window scored, and that score (a number) is returned.
C3_ShortSequenceScored ==
    ("max" \in called /\ 0 < Len(seq) /\ Len(seq) < window) =>
        /\ ~max_score.isnan
        /\ max_score.value = window_score(seq, penalty, tt_penalty)

\* offset and length of the window a Signal row was made from
RowOffset(r) == IF strand = "+" THEN r.start - start ELSE start - r.end
RowLen(r) == r.end - r.start
RowEnd(r) == RowOffset(r) + RowLen(r)

\* n = ceil(num / den), den > 0
CeilIs(n, num, den) == (n - 1) * den < num /\ num <= n * den

\* every row k is the window at offset (k-1)*step, truncated at the end of
\* the sequence
RowsAdvanceByStep ==
    \A k \in 1..Len(scores) :
        /\ RowOffset(scores[k]) = (k - 1) * step
        /\ RowLen(scores[k]) = Min(window, Max(0, Len(seq) - (k - 1) * step))

\* C4 as stated: signal mode produces exactly ceil((L-W)/S + 1) windows at
\* offsets 0, S, 2S, ..., and the last window's end never exceeds L.
C4_AsStated ==
    "signal" \in called =>
        /\ CeilIs(Len(scores), Len(seq) - window + step, step)
        /\ RowsAdvanceByStep
        /\ Len(scores) > 0 => RowEnd(scores[Len(scores)]) <= Len(seq)

\* C4 amended: signal mode produces exactly max(0, ceil((L-W)/S + 1))
\* windows at offsets 0, S, 2S, ..., each the slice seq[i:i+W] truncated at
\* L, and the last window's end never exceeds max(L, L-W+S-1) (so never L
\* when S <= W+1).
C4_WindowCount ==
    "signal" \in called =>
        /\ IF Len(seq) - window + step <= 0
           THEN Len(scores) = 0
           ELSE CeilIs(Len(scores), Len(seq) - window + step, step)
        /\ RowsAdvanceByStep
        /\ Len(scores) > 0 =>
               /\ RowEnd(scores[Len(scores)])
                      <= Max(Len(seq), Len(seq) - window + step - 1)
               /\ step <= window + 1 => RowEnd(scores[Len(scores)]) <= Len(seq)

\* several windows were produced and the last one is cut short by the end of
\* the sequence
C4_Witness ==
    /\ "signal" \in called
    /\ Len(scores) >= 3
    /\ RowLen(scores[Len(scores)]) < window
    /\ RowLen(scores[Len(scores)]) > 0

\* the fragments of test_candidate(c) as spans (start, end) relative to the
\* string the recursion started from, off being the offset of c in it
RECURSIVE fragment_spans(_, _)
fragment_spans(c, off) ==
    LET tt_pos == tt_positions(c)
    IN IF Len(tt_pos) = 0 /\ Len(c) >= 4 /\ c[1] # "T"
       THEN (IF ~all_ggtgg(c) THEN <<<<off, off + Len(c)>>>> ELSE <<>>)
       ELSE IF Len(tt_pos) = 0 /\ Len(c) >= 4 /\ c[1] = "T"
       THEN fragment_spans(Slice(c, 1, Len(c)), off + 1)
       ELSE IF Len(c) > 4
       THEN fragment_spans(Slice(c, 0, tt_pos[1] + 1), off)
            \o fragment_spans(Slice(c, tt_pos[1] + 1, Len(c)), off + tt_pos[1] + 1)
       ELSE <<>>

\* spans the fragments of the window's matches actually occupy
RECURSIVE occupied_spans(_, _)
occupied_spans(s, ms) ==
    IF ms = <<>> THEN <<>>
    ELSE LET m == Head(ms)
             text == Slice(s, m[1], m[2])
         IN (IF ~contains_gt4_gs(text) /\ ~all_ggtgg(text)
             THEN fragment_spans(text, m[1]) ELSE <<>>)
            \o occupied_spans(s, Tail(ms))

\* number of candidates of the window that end in 'T' and are followed by 'T'
FlankedCandidates ==
    LET sp == occupied_spans(seq, tg_matches(seq))
    IN Cardinality({j \in 1..Len(sp) :
                       /\ sp[j][2] < Len(seq)
                       /\ seq[sp[j][2]] = "T"
                       /\ seq[sp[j][2] + 1] = "T"})

\* C5: the flanking-TT penalty subtracted from the raw score is tt_penalty
\* times the number of candidates whose own last character is 'T' and whose
\* next nucleotide in the window is 'T'.
C5_FlankingPenalty ==
    "score" \in called =>
        score = score_groups(kmers) - ggtgg_penalty(kmers, penalty)
                - tt_penalty * FlankedCandidates

\* C6: extract applied to the text of a candidate it returned gives back
\* exactly that candidate with span (0, len), and split gives back [c].
C6_AcceptanceIdempotent ==
    "find_tg_kmers" \in called =>
        \A j \in 1..Len(kmers) :
            /\ find_tg_kmers(kmers[j])
                   = [kmers |-> <<kmers[j]>>, pos |-> <<<<0, Len(kmers[j])>>>>]
            /\ test_candidate(kmers[j]) = <<kmers[j]>>

\* a match was split, so some candidate is shorter than its match
C6_Witness ==
    /\ "find_tg_kmers" \in called
    /\ Len(kmers) >= 2
    /\ Len(tg_matches(seq)) = 1

\* C7: a match with four or more consecutive G contributes no candidate, an
\* all-G sequence yields none, and no candidate contains "GGGG".
C7_FourPlusGRejected ==
    "find_tg_kmers" \in called =>
        /\ \A j \in 1..Len(kmers) : Occurrences(kmers[j], GGGG) = {}
        /\ \A k \in 1..Len(tg_matches(seq)) :
               LET m == tg_matches(seq)[k]
               IN Occurrences(Slice(seq, m[1], m[2]), GGGG) # {} =>
                      \A j \in 1..Len(pos) :
                          pos[j][2] <= m[1] \/ pos[j][1] >= m[2]
        /\ (Len(seq) >= 4 /\ \A i \in 1..Len(seq) : seq[i] = "G") => kmers = <<>>

\* a window with a rejected GGGG match next to a match that gave a candidate
C7_Witness ==
    /\ "find_tg_kmers" \in called
    /\ Occurrences(seq, GGGG) # {}
    /\ Len(tg_matches(seq)) = 2
    /\ Len(kmers) = 1

\* C8: the row of the window at offset i with length n is [start+i,
\* start+i+n] on '+' and [start-i-n, start-i] on '-' (the '+' interval
\* mirrored around start), start <= end, rows in ascending window offset.
C8_SignalCoordinates ==
    "signal" \in called =>
        \A k \in 1..Len(scores) :
            LET i == (k - 1) * step
                n == Min(window, Max(0, Len(seq) - i))
            IN /\ strand = "+" => /\ scores[k].start = start + i
                                  /\ scores[k].end = start + i + n
               /\ strand = "-" => /\ scores[k].start = 2 * start - (start + i + n)
                                  /\ scores[k].end = 2 * start - (start + i)
               /\ scores[k].start <= scores[k].end

\* a minus-strand Signal of several windows
C8_Witness ==
    /\ "signal" \in called
    /\ strand = "-"
    /\ Len(scores) >= 3
    /\ scores[2].start < scores[2].end

\* C9: with len(seq) >= window, the value max mode returns is the maximum
\* of the scores of the Signal that signal mode returns for the same input.
C9_MaxEqualsSignalMax ==
    (called = {"max", "signal"} /\ Len(seq) >= window) =>
        /\ ~max_score.isnan
        /\ \A k \in 1..Len(scores) : scores[k].score <= max_score.value
        /\ \E k \in 1..Len(scores) : scores[k].score = max_score.value

\* C10: the spans recorded for the candidates of one window are in strictly
\* ascending order of start and pairwise non-overlapping, each being where
\* its fragment lies.
C10_SpansAscendingDisjoint ==
    "find_tg_kmers" \in called =>
        /\ pos = occupied_spans(seq, tg_matches(seq))
        /\ \A j \in 1..(Len(pos) - 1) : pos[j][2] <= pos[j + 1][1]

====
